---- MODULE Spec2Model ----
(***************************************************************************)
(* The Gemini CLI agent: the Agent orchestrator (gemini_agent/agent.py),   *)
(* its tools and path guard (gemini_agent/tools.py) and the Textual front  *)
(* end CLIApp (gemini_agent/ui.py).                                        *)
(*                                                                         *)
(* Text is a sequence of tokens.  A token is one character (" ", "\n",     *)
(* "/", ".", "p", ...) or an opaque chunk of text that the program never   *)
(* looks into (a word, a literal message).  None is the empty tuple and    *)
(* Some(x) the one-element tuple, so Optional values stay comparable.      *)
(***************************************************************************)
EXTENDS Integers, Sequences, FiniteSets, TLC

VARIABLES
    app,            \* CLIApp life cycle: "running", "exited" (self.exit()), "crashed"
    input_box,      \* Input#inputbox .value
    pending_tool,   \* CLIApp.pending_tool: None or Some(PendingToolCall)
    buttons_disabled, \* .disabled of Button#approve and Button#deny
    history,        \* lines the latest handler that wrote put in Log#history
    pc,             \* "idle": no handler runs; "await_model": generate_content in flight
    op,             \* the Agent method the running handler called ("none" when idle)
    text_segments,  \* local of _process_response
    events,         \* local of _process_response (tool_event of handle_tool_decision first)
    response,       \* local of _process_response: the last model response, None before any
    reply,          \* the AgentReply last returned to the front end: None or Some
    proposed,       \* the model's call object behind the latest PendingToolCall: None or Some
    requests,       \* log: every generate_content request issued
    raised,         \* whether a generate_content call raised into the running handler
    executed,       \* log: every _execute_tool_function invocation
    spawned,        \* log: every command subprocess.run launched
    fs,             \* the filesystem: absolute path -> contents, for the files that exist
    calls,          \* log: every call of handle_user_input / handle_tool_decision
    vp_path,        \* path guard harness: the argument of validate_path
    vp_result,      \* path guard harness: None before the call, Some(outcome) after
    tool_log,       \* tools harness: every direct _execute_tool_function call, with its outcome
    in_flight,      \* the number of Agent method calls entered and not yet left
    queue,          \* message pump: the messages posted to CLIApp and not yet dispatched
    cli_script,     \* standalone loop: the script that runs, "cli_agent" or "cli_agent_textualize"
    cli_pc,         \* standalone loop: "input", "await_model", "ask_approval", "done"
    cli_response,   \* standalone loop: the local `response`, None before any
    cli_todo,       \* standalone loop: the calls the running `for` has yet to visit
    cli_call,       \* standalone loop: the local `tool_call` at the approval prompt, None or Some
    cli_answer,     \* standalone loop: the last answer to "Allow? (y/n): ", None or Some
    cli_sent,       \* standalone loop: log of everything sent to the model
    heard,          \* log: every response generate_content returned to the Agent
    replies         \* log: every AgentReply returned to the front end

vars == <<app, input_box, pending_tool, buttons_disabled, history, pc, op,
          text_segments, events, response, reply, heard, replies,
          proposed, requests, raised,
          executed, spawned, fs, calls, vp_path, vp_result, tool_log,
          in_flight, queue, cli_script, cli_pc, cli_response, cli_todo, cli_call,
          cli_answer, cli_sent>>

uiVars == <<app, input_box, pending_tool, buttons_disabled, history>>
agentVars == <<pc, op, text_segments, events, response, reply, heard, replies,
               proposed,
               requests, raised, executed, spawned, fs, calls, in_flight>>
guardVars == <<vp_path, vp_result>>
cliVars == <<cli_script, cli_pc, cli_response, cli_todo, cli_call, cli_answer, cli_sent>>
harnessVars == <<vp_path, vp_result, tool_log, cliVars>>
handlerVars == <<uiVars, agentVars, harnessVars>>

\* no standalone loop runs beside the Agent and CLIApp
CliNotStarted ==
    /\ cli_script = "none"
    /\ cli_pc = "done"
    /\ cli_response = <<>>
    /\ cli_todo = <<>>
    /\ cli_call = <<>>
    /\ cli_answer = <<>>
    /\ cli_sent = <<>>

----------------------------------------------------------------------------
(* Bounds of the model. *)

\* model requests issued in one run of the conversation
MaxRequests == 3
\* tokens in a path handed to validate_path in the path guard harness
MaxPathLen == 5

----------------------------------------------------------------------------
(* Optional values and text helpers. *)

None == <<>>
Some(x) == <<x>>

EmptyDict == <<>>

Whitespace == {" ", "\n"}

RECURSIVE lstrip(_)
lstrip(s) ==
    IF s # <<>> /\ Head(s) \in Whitespace THEN lstrip(Tail(s)) ELSE s

RECURSIVE rstrip(_)
rstrip(s) ==
    IF s # <<>> /\ s[Len(s)] \in Whitespace THEN rstrip(SubSeq(s, 1, Len(s) - 1)) ELSE s

\* str.strip()
strip(s) == rstrip(lstrip(s))

\* str.lower() on the chunks the model uses
LowerTok(t) ==
    CASE t = "EXIT" -> "exit"
      [] t = "Y" -> "y"
      [] t = "Quit" -> "quit"
      [] OTHER -> t

lower(s) == [i \in 1..Len(s) |-> LowerTok(s[i])]

\* sep.join(parts)
RECURSIVE join(_, _)
join(sep, parts) ==
    IF parts = <<>> THEN <<>>
    ELSE IF Len(parts) = 1 THEN parts[1]
    ELSE parts[1] \o sep \o join(sep, Tail(parts))

\* str.startswith(prefix)
startswith(s, prefix) ==
    /\ Len(prefix) <= Len(s)
    /\ SubSeq(s, 1, Len(prefix)) = prefix

\* str.split("/")
RECURSIVE split_slash(_)
split_slash(s) ==
    IF \A i \in 1..Len(s) : s[i] # "/" THEN <<s>>
    ELSE LET k == CHOOSE i \in 1..Len(s) : s[i] = "/" /\ \A j \in 1..(i - 1) : s[j] # "/"
         IN  <<SubSeq(s, 1, k - 1)>> \o split_slash(SubSeq(s, k + 1, Len(s)))

----------------------------------------------------------------------------
(* gemini_agent/config.py and the filesystem the process runs in. *)

\* the current directory is /w; "p" is the chunk "playground"
WORK_DIR == <<"/", "w", "/", "p">>

\* the directories that exist: /, /w, the sandbox /w/p and its sibling /w/p2
Dirs == {<<"/">>, <<"/", "w">>, WORK_DIR, <<"/", "w", "/", "p", "2">>}

\* os.path.dirname of a normalised absolute path
dirname(path) ==
    LET slashes == {i \in 1..Len(path) : path[i] = "/"}
        last == CHOOSE i \in slashes : \A j \in slashes : j <= i
    IN  IF last = 1 THEN <<"/">> ELSE SubSeq(path, 1, last - 1)

----------------------------------------------------------------------------
(* gemini_agent/tools.py: the path guard. *)

\* os.path.join(a, b) for two components
path_join(a, b) ==
    IF b # <<>> /\ Head(b) = "/" THEN b
    ELSE IF a = <<>> \/ a[Len(a)] = "/" THEN a \o b
    ELSE a \o <<"/">> \o b

\* the component loop of posixpath.normpath
RECURSIVE norm_comps(_, _, _)
norm_comps(comps, new_comps, initial_slashes) ==
    IF comps = <<>> THEN new_comps
    ELSE LET comp == Head(comps)
             n == Len(new_comps)
             next == IF comp = <<>> \/ comp = <<".">> THEN new_comps
                     ELSE IF \/ comp # <<".", ".">>
                             \/ (initial_slashes = 0 /\ n = 0)
                             \/ (n > 0 /\ new_comps[n] = <<".", ".">>)
                          THEN Append(new_comps, comp)
                     ELSE IF n > 0 THEN SubSeq(new_comps, 1, n - 1)
                     ELSE new_comps
         IN  norm_comps(Tail(comps), next, initial_slashes)

\* posixpath.normpath
normpath(path) ==
    IF path = <<>> THEN <<".">>
    ELSE LET initial_slashes ==
                 IF ~startswith(path, <<"/">>) THEN 0
                 ELSE IF startswith(path, <<"/", "/">>) /\ ~startswith(path, <<"/", "/", "/">>)
                      THEN 2
                 ELSE 1
             comps == norm_comps(split_slash(path), <<>>, initial_slashes)
             joined == [i \in 1..initial_slashes |-> "/"] \o join(<<"/">>, comps)
         IN  IF joined = <<>> THEN <<".">> ELSE joined

\* os.path.abspath of a path that is absolute already (WORK_DIR is)
abspath(path) == normpath(path)

\* The containment test of validate_path.
InWorkDir(full_path) == startswith(full_path, WORK_DIR)

\* validate_path: [ok |-> TRUE, path] or [ok |-> FALSE, exc] for the raised ValueError
validate_path(path) ==
    LET full_path == abspath(path_join(WORK_DIR, path))
    IN  IF ~InWorkDir(full_path)
        THEN [ok |-> FALSE,
              path |-> <<>>,
              exc |-> <<"SECURITY ALERT: Access denied to ">> \o path
                        \o <<". Stay in ">> \o WORK_DIR]
        ELSE [ok |-> TRUE, path |-> full_path, exc |-> <<>>]

----------------------------------------------------------------------------
(* gemini_agent/tools.py: the three tools.  A tool yields its result dict   *)
(* and the filesystem and process log it leaves behind.                     *)

ToolResult(status, output) == [status |-> status, output |-> output]

\* The line boundaries of str.splitlines() in the alphabet of the model: "\f"
\* stands for the boundaries that are not newlines ("\v", "\f", "\x1c", ...).
LineBreaks == {"\n", "\r", "\f"}

\* str.splitlines(): "\r\n" is one boundary
RECURSIVE splitlines(_)
splitlines(data) ==
    IF data = <<>> THEN <<>>
    ELSE IF \A i \in 1..Len(data) : data[i] \notin LineBreaks THEN <<data>>
    ELSE LET k == CHOOSE i \in 1..Len(data) :
                      data[i] \in LineBreaks /\ \A j \in 1..(i - 1) : data[j] \notin LineBreaks
             next == IF data[k] = "\r" /\ k < Len(data) /\ data[k + 1] = "\n"
                     THEN k + 2 ELSE k + 1
         IN  <<SubSeq(data, 1, k - 1)>> \o splitlines(SubSeq(data, next, Len(data)))

\* A Python value that is not a str, where the signature asks for one (an
\* int, a list, None): text is a token sequence, and this one token stands
\* for every such value.
NotAStr == <<"<not a str>">>

\* The exception text Python gives a TypeError
TypeErrorText == <<"TypeError">>

\* What a function body does: it returns a result, or raises.  exc is the
\* exception in flight (None once caught or when none was raised), cause
\* the exception the body raised, if it raised one.
Return(result, files, procs) ==
    [exc |-> None, cause |-> None, result |-> result, files |-> files, procs |-> procs]

Raise(type, text, files, procs) ==
    [exc |-> Some([type |-> type, text |-> text]),
     cause |-> Some([type |-> type, text |-> text]),
     result |-> ToolResult("raised", <<>>), files |-> files, procs |-> procs]

\* Mutant of CatchException: the clause only catches ValueError.
CatchException_OnlyValueError(outcome, prefix) ==
    IF outcome.exc = None \/ outcome.exc[1].type # "ValueError" THEN outcome
    ELSE [outcome EXCEPT !.exc = None,
                         !.result = ToolResult("error", prefix \o outcome.exc[1].text)]

\* except Exception as exc: return {"status": "error", "output": f"<prefix>{exc}"}
CatchException(outcome, prefix) ==
    IF outcome.exc = None THEN outcome
    ELSE [outcome EXCEPT !.exc = None,
                         !.result = ToolResult("error", prefix \o outcome.exc[1].text)]

\* Mutant of CatchTimeout: run_shell has no clause for TimeoutExpired.
CatchTimeout_Missing(outcome) == outcome

\* except subprocess.TimeoutExpired: return the timeout result
CatchTimeout(outcome) ==
    IF outcome.exc = None \/ outcome.exc[1].type # "TimeoutExpired" THEN outcome
    ELSE [outcome EXCEPT !.exc = None,
                         !.result = ToolResult("error", <<"Error: Command timed out.">>)]

\* timeout=30 of subprocess.run, in seconds
ShellTimeout == 30

\* What the platform shell does with a command left to run: the environment
\* of subprocess.run.  launched is whether a process starts (it does not for
\* a command with an embedded NUL), duration the seconds the command takes,
\* code its exit code.  Any other command is one the shell does not find.
ShellOutcome(command, files) ==
    LET ran(duration, code, stdout, stderr, after) ==
            [launched |-> TRUE, duration |-> duration, code |-> code,
             stdout |-> stdout, stderr |-> stderr, files |-> after]
    IN  CASE command = <<"touch p">> ->
                 ran(0, 0, <<>>, <<>>,
                     IF (WORK_DIR \o <<"/", "p">>) \in DOMAIN files THEN files
                     ELSE (WORK_DIR \o <<"/", "p">>) :> <<>> @@ files)
          [] command = <<"ls">> -> ran(0, 0, <<"listing", "\n">>, <<>>, files)
          [] command = <<"false">> -> ran(0, 1, <<>>, <<>>, files)
          [] command = <<"sleep 60">> -> ran(60, 0, <<>>, <<>>, files)
          [] command = <<"embedded NUL">> ->
                 [launched |-> FALSE, duration |-> 0, code |-> 0,
                  stdout |-> <<>>, stderr |-> <<>>, files |-> files]
          [] OTHER -> ran(0, 127, <<>>, <<"not found", "\n">>, files)

\* subprocess.run(command, shell=True, ..., timeout=timeout), where run is
\* what the shell does with the command: the completed process, or the
\* exception raised.  A command that outlives the timeout is killed when the
\* timeout is reached.
subprocess_run(command, timeout, run, files, procs) ==
    IF command = NotAStr
    THEN [elapsed |-> 0, completed |-> None] @@ Raise("TypeError", TypeErrorText, files, procs)
    ELSE IF ~run.launched
    THEN [elapsed |-> 0, completed |-> None]
             @@ Raise("ValueError", <<"embedded null byte">>, files, procs)
    ELSE IF run.duration > timeout
    THEN [elapsed |-> timeout, completed |-> None]
             @@ Raise("TimeoutExpired", <<"timed out">>, files, Append(procs, command))
    ELSE [elapsed |-> run.duration, completed |-> Some(run)]
             @@ Return(ToolResult("none", <<>>), run.files, Append(procs, command))

\* (result.stdout + "\n" + result.stderr).strip(), or the message for none
ShellOutput(output) ==
    IF output = <<>> THEN <<"Command executed successfully (no output).">> ELSE output

\* the try block of run_shell, given what subprocess.run did
run_shell_try(ran) ==
    IF ran.exc # None THEN ran
    ELSE [ran EXCEPT !.result =
              ToolResult("success",
                         ShellOutput(strip(ran.completed[1].stdout \o <<"\n">>
                                               \o ran.completed[1].stderr)))]

\* run_shell(command)
run_shell(command, files, procs) ==
    CatchException(
        CatchTimeout(
            run_shell_try(subprocess_run(command, ShellTimeout,
                                         ShellOutcome(command, files), files, procs))),
        <<"Error executing command: ">>)

\* open(safe_path, "w") succeeds on a non-directory whose parent directory exists
CanOpenForWrite(path) == path \notin Dirs /\ dirname(path) \in Dirs

\* open(safe_path, "r").read(): text mode with universal newlines, where
\* "\r\n" and a lone "\r" are read as "\n"
RECURSIVE read_text(_)
read_text(stored) ==
    IF stored = <<>> THEN <<>>
    ELSE IF Head(stored) = "\r"
    THEN <<"\n">> \o read_text(IF Len(stored) > 1 /\ stored[2] = "\n"
                               THEN SubSeq(stored, 3, Len(stored))
                               ELSE Tail(stored))
    ELSE <<Head(stored)>> \o read_text(Tail(stored))

\* the try block of write_file, given what validate_path did
write_file_try(file_path, contents, safe, files, procs) ==
    IF file_path = NotAStr THEN Raise("TypeError", TypeErrorText, files, procs)
    ELSE IF ~safe.ok THEN Raise("ValueError", safe.exc, files, procs)
    ELSE IF ~CanOpenForWrite(safe.path)
    THEN Raise("OSError", <<"OSError">>, files, procs)
    ELSE IF contents = NotAStr
    THEN Raise("TypeError", TypeErrorText,
               [q \in DOMAIN files \cup {safe.path} |->
                   IF q = safe.path THEN <<>> ELSE files[q]],
               procs)
    ELSE Return(ToolResult("success", <<"Successfully wrote to ">> \o file_path),
                [q \in DOMAIN files \cup {safe.path} |->
                    IF q = safe.path THEN contents ELSE files[q]],
                procs)

\* write_file(file_path, contents)
write_file(file_path, contents, files, procs) ==
    CatchException(write_file_try(file_path, contents, validate_path(file_path),
                                  files, procs),
                   <<"Error writing file: ">>)

\* lines[:num_lines] for num_lines >= 0
FirstLines(lines, num_lines) ==
    SubSeq(lines, 1, IF num_lines < Len(lines) THEN num_lines ELSE Len(lines))

\* the lines 65-74 of read_file, on the text read; num_lines is None or Some(integer)
read_file_limit(data, num_lines, files, procs) ==
    IF num_lines = None THEN Return(ToolResult("success", data), files, procs)
    ELSE IF num_lines[1] < 0
    THEN Return(ToolResult("error", <<"Error: num_lines must be positive.">>),
                files, procs)
    ELSE Return(ToolResult("success",
                           join(<<"\n">>, FirstLines(splitlines(data), num_lines[1]))),
                files, procs)

\* the try block of read_file, given what validate_path did
read_file_try(file_path, num_lines, safe, files, procs) ==
    IF file_path = NotAStr THEN Raise("TypeError", TypeErrorText, files, procs)
    ELSE IF ~safe.ok THEN Raise("ValueError", safe.exc, files, procs)
    ELSE IF safe.path \notin DOMAIN files /\ safe.path \notin Dirs
    THEN Return(ToolResult("error", <<"Error: File not found.">>), files, procs)
    ELSE IF safe.path \in Dirs
    THEN Raise("OSError", <<"OSError">>, files, procs)
    ELSE read_file_limit(read_text(files[safe.path]), num_lines, files, procs)

\* read_file(file_path, num_lines); num_lines is None or Some(integer)
read_file(file_path, num_lines, files, procs) ==
    CatchException(read_file_try(file_path, num_lines, validate_path(file_path),
                                 files, procs),
                   <<"Error reading file: ">>)

\* TOOL_FUNCTIONS
TOOL_FUNCTIONS == {"run_shell", "write_file", "read_file"}

\* Whether func(**args) binds: every required parameter given, no unknown keyword.
Binds(tool_name, args) ==
    LET keys == DOMAIN args
    IN  CASE tool_name = "run_shell" -> keys = {"command"}
          [] tool_name = "write_file" -> keys = {"file_path", "contents"}
          [] tool_name = "read_file" ->
                 "file_path" \in keys /\ keys \subseteq {"file_path", "num_lines"}
          [] OTHER -> FALSE

----------------------------------------------------------------------------
(* gemini_agent/agent.py: the helpers of Agent. *)

PendingToolCall(tool_name, args) == [tool_name |-> tool_name, args |-> args]

ToolEvent(name, status, output) == [name |-> name, status |-> status, output |-> output]

AgentReply(text, pending, tool_events) ==
    [text |-> text, pending_tool |-> pending, tool_events |-> tool_events]

\* Mutant of _normalize_args: the proposed arguments are dropped.
_normalize_args_drops(raw_args) == EmptyDict

\* _normalize_args: raw_args is None or Some(mapping)
_normalize_args(raw_args) ==
    IF raw_args # None THEN raw_args[1] ELSE EmptyDict

\* Mutant of _clean_text: the joined text is returned without .strip().
_clean_text_NoStrip(segments) ==
    LET joined == join(<<"\n">>, SelectSeq(segments, LAMBDA part : part # <<>>))
    IN  IF joined = <<>> THEN None ELSE Some(joined)

\* _clean_text: None, or Some(text)
_clean_text(segments) ==
    LET joined == join(<<"\n">>, SelectSeq(segments, LAMBDA part : part # <<>>))
    IN  IF strip(joined) = <<>> THEN None ELSE Some(strip(joined))

\* Mutant of _execute_tool_function: a name that is not in TOOL_FUNCTIONS is
\* answered with an empty success.
_execute_tool_function_UnknownSucceeds(tool_name, args, files, procs) ==
    IF tool_name \notin TOOL_FUNCTIONS
    THEN Return(ToolResult("success", <<>>), files, procs)
    ELSE LET body ==
                 IF ~Binds(tool_name, args)
                 THEN Raise("TypeError", TypeErrorText, files, procs)
                 ELSE CASE tool_name = "run_shell" ->
                               run_shell(args["command"], files, procs)
                        [] tool_name = "write_file" ->
                               write_file(args["file_path"], args["contents"], files, procs)
                        [] OTHER ->
                               read_file(args["file_path"],
                                         IF "num_lines" \in DOMAIN args
                                         THEN Some(args["num_lines"]) ELSE None,
                                         files, procs)
         IN  CatchException(body, <<"Error while running ", tool_name, ": ">>)

\* Agent._execute_tool_function
_execute_tool_function(tool_name, args, files, procs) ==
    IF tool_name \notin TOOL_FUNCTIONS
    THEN Return(ToolResult("error", <<"Error: Unknown tool '", tool_name, "'.">>),
                files, procs)
    ELSE LET body ==
                 IF ~Binds(tool_name, args)
                 THEN Raise("TypeError", TypeErrorText, files, procs)
                 ELSE CASE tool_name = "run_shell" ->
                               run_shell(args["command"], files, procs)
                        [] tool_name = "write_file" ->
                               write_file(args["file_path"], args["contents"], files, procs)
                        [] OTHER ->
                               read_file(args["file_path"],
                                         IF "num_lines" \in DOMAIN args
                                         THEN Some(args["num_lines"]) ELSE None,
                                         files, procs)
         IN  CatchException(body, <<"Error while running ", tool_name, ": ">>)

\* Agent._build_tool_event
_build_tool_event(tool_name, result) == ToolEvent(tool_name, result.status, result.output)

\* Mutant of _format_tool_message: the status is left out of the message.
_format_tool_message_NoStatus(event) ==
    <<"Tool ", event.name, ":\n">>
        \o (IF event.output = <<>> THEN <<"(no output)">> ELSE event.output)

\* Agent._format_tool_message
_format_tool_message(event) ==
    <<"Tool ", event.name, " (", event.status, "):\n">>
        \o (IF event.output = <<>> THEN <<"(no output)">> ELSE event.output)

\* The result handle_tool_decision records when the user denies.
DeniedResult == ToolResult("error", <<"User denied permission to execute this command.">>)

\* Mutant of DecisionOutcome: the tool runs whatever the decision is.
DecisionOutcome_IgnoresDenial(pending, approved, files, procs) ==
    [runs |-> <<[name |-> pending.tool_name, args |-> pending.args]>>]
        @@ _execute_tool_function(pending.tool_name, pending.args, files, procs)

\* Mutant of DecisionOutcome: an approved tool is run a second time.
DecisionOutcome_Twice(pending, approved, files, procs) ==
    IF ~approved
    THEN [result |-> DeniedResult, files |-> files, procs |-> procs, runs |-> <<>>]
    ELSE LET first == _execute_tool_function(pending.tool_name, pending.args, files, procs)
         IN  [runs |-> <<[name |-> pending.tool_name, args |-> pending.args],
                         [name |-> pending.tool_name, args |-> pending.args]>>]
                 @@ _execute_tool_function(pending.tool_name, pending.args,
                                           first.files, first.procs)

\* The first branch of handle_tool_decision: what stands for the tool's result;
\* runs lists the _execute_tool_function invocations made.
DecisionOutcome(pending, approved, files, procs) ==
    IF ~approved
    THEN [result |-> DeniedResult, files |-> files, procs |-> procs, runs |-> <<>>]
    ELSE [runs |-> <<[name |-> pending.tool_name, args |-> pending.args]>>]
             @@ _execute_tool_function(pending.tool_name, pending.args, files, procs)

\* response.function_calls or []
FunctionCalls(resp) == resp.function_calls

\* The text _process_response appends for a response, if any.
SegmentsAfter(segments, resp) ==
    IF resp.text # None /\ resp.text[1] # <<>> THEN Append(segments, resp.text[1])
    ELSE segments

\* Mutant of CallOfIteration: the loop ends up with the last call of the batch.
CallOfIteration_Last(function_calls) == function_calls[Len(function_calls)]

\* `for call in function_calls: ...; break`: the one call an iteration looks at
CallOfIteration(function_calls) == Head(function_calls)

\* Mutant of NeedsApproval: every tool is handed back for approval.
NeedsApproval_EveryTool(call) == TRUE

\* Mutant of NeedsApproval: the gate compares with another tool name.
NeedsApproval_WrongName(call) == call.name = "shell"

\* `if call.name == "run_shell"`: the call is handed back for approval
NeedsApproval(call) == call.name = "run_shell"

\* What one generate_content request hands to the model: contents is the
\* message alone, and generate_content keeps no session between calls.
ModelSees(request) == {request.contents}

----------------------------------------------------------------------------
(* The environment: what the user types and what the model answers. *)

InputValues == {<<>>, <<" ">>, <<" ", "hi", " ">>, <<"EXIT">>}

Call(name, raw_args) == [name |-> name, args |-> raw_args]

c_touch == Call("run_shell", Some([command |-> <<"touch p">>]))
c_noargs == Call("run_shell", None)
c_write == Call("write_file", Some([file_path |-> <<"p">>, contents |-> <<"x">>]))
c_read == Call("read_file", Some([file_path |-> <<"p">>]))
c_escape ==
    Call("write_file",
         Some([file_path |-> <<".", ".", "/", "p", "2", "/", "p">>, contents |-> <<"x">>]))
c_unknown == Call("delete_file", Some([file_path |-> <<"p">>]))

ModelCalls == {c_touch, c_noargs, c_write, c_read, c_escape, c_unknown}

Response(text, function_calls) == [text |-> text, function_calls |-> function_calls]

ModelResponses ==
    {Response(t, <<>>) : t \in {None, Some(<<"t">>), Some(<<" ">>)}}
    \cup {Response(t, <<c>>) : t \in {None, Some(<<"t">>)}, c \in ModelCalls}
    \cup {Response(None, <<c_write, c_touch>>),
          Response(None, <<c_touch, c_write>>),
          Response(Some(<<" ">>), <<c_read, c_write>>)}

----------------------------------------------------------------------------
(* gemini_agent/ui.py and the public API of Agent.                          *)
(* Textual runs the handlers of one message pump one after the other, so a  *)
(* handler starts only when pc = "idle".                                    *)

Request(contents, id) == [contents |-> contents, call |-> id]

Execution(name, args, id, at) == [name |-> name, args |-> args, call |-> id, at |-> at]

ApiCall(method, user_msg, pending, approved) ==
    [op |-> method, user_msg |-> user_msg, pending |-> pending, approved |-> approved]

\* CLIApp._handle_reply, after the lines `so_far` the handler wrote before
_handle_reply(r, so_far) ==
    LET text_lines ==
            IF r.text # None /\ r.text[1] # <<>>
            THEN << <<>>, <<"Agent: ">> \o r.text[1] >> ELSE <<>>
        event_lines ==
            [i \in 1..(3 * Len(r.tool_events)) |->
                LET e == r.tool_events[((i - 1) \div 3) + 1]
                IN  CASE i % 3 = 1 -> <<>>
                      [] i % 3 = 2 -> <<"Agent (tool ", e.name, ", ", e.status, "):">>
                      [] OTHER -> IF e.output = <<>> THEN <<"(no output)">> ELSE e.output]
        cmd == IF r.pending_tool = None THEN <<>>
               ELSE IF "command" \in DOMAIN r.pending_tool[1].args
               THEN r.pending_tool[1].args["command"] ELSE <<>>
        pending_lines ==
            IF r.pending_tool # None
            THEN << <<>>, <<"Agent wants to run: ">> \o cmd >> ELSE <<>>
    IN  /\ history' = so_far \o text_lines \o event_lines \o pending_lines
        /\ pending_tool' = r.pending_tool
        /\ buttons_disabled' = (r.pending_tool = None)

\* Mutant of ReturnReply: the Agent method builds r, but the handler that
\* awaits it is never resumed.
ReturnReply_Lost(r) ==
    /\ reply' = Some(r)
    /\ pc' = "lost"
    /\ UNCHANGED <<replies, in_flight, op, history, pending_tool, buttons_disabled>>

\* An Agent method returns r to the handler that awaits it, which goes on to
\* _handle_reply (ui.py 106, 123-124).
ReturnReply(r) ==
    /\ reply' = Some(r)
    /\ replies' = Append(replies, [call |-> Len(calls), reply |-> r])
    /\ in_flight' = in_flight - 1
    /\ pc' = "idle"
    /\ op' = "none"
    /\ _handle_reply(r, history)

\* Mutant of handle_user_input: the Agent keeps its narration and event log
\* from the call before.
handle_user_input_KeepsLog(user_msg) ==
    /\ calls' = Append(calls, ApiCall("handle_user_input", user_msg, None, FALSE))
    /\ op' = "handle_user_input"
    /\ in_flight' = in_flight + 1
    /\ requests' = Append(requests, Request(user_msg, Len(calls) + 1))
    /\ heard' = <<>>
    /\ replies' = <<>>
    /\ pc' = "await_model"
    /\ UNCHANGED <<text_segments, events, response, reply, proposed, raised, executed,
                   spawned, fs>>

\* Agent.handle_user_input up to its generate_content request
handle_user_input(user_msg) ==
    /\ calls' = Append(calls, ApiCall("handle_user_input", user_msg, None, FALSE))
    /\ op' = "handle_user_input"
    /\ in_flight' = in_flight + 1
    /\ requests' = Append(requests, Request(user_msg, Len(calls) + 1))
    /\ text_segments' = <<>>
    /\ events' = <<>>
    /\ heard' = <<>>
    /\ replies' = <<>>
    /\ pc' = "await_model"
    /\ UNCHANGED <<response, reply, proposed, raised, executed, spawned, fs>>

\* CLIApp._process_input
_process_input ==
    LET user_msg == strip(input_box)
    IN  IF user_msg = <<>>
        THEN UNCHANGED handlerVars
        ELSE /\ input_box' = <<>>
             /\ history' = << <<>>, <<"User: ">> \o user_msg >>
             /\ IF lower(user_msg) \in {<<"exit">>, <<"quit">>}
                THEN /\ app' = "exited"
                     /\ UNCHANGED <<pending_tool, buttons_disabled>>
                     /\ UNCHANGED agentVars
                ELSE /\ Len(requests) < MaxRequests
                     /\ handle_user_input(user_msg)
                     /\ UNCHANGED <<app, pending_tool, buttons_disabled>>
             /\ UNCHANGED harnessVars

\* Mutant of handle_tool_decision: the resumed call starts from the narration
\* and the events of the call that was suspended.
handle_tool_decision_KeepsEarlier(pending, approved) ==
    LET out == DecisionOutcome(pending, approved, fs, spawned)
        tool_event == _build_tool_event(pending.tool_name, out.result)
    IN  /\ calls' = Append(calls, ApiCall("handle_tool_decision", <<>>, Some(pending),
                                          approved))
        /\ op' = "handle_tool_decision"
        /\ in_flight' = in_flight + 1
        /\ executed' = executed \o [i \in 1..Len(out.runs) |->
                                       Execution(out.runs[i].name, out.runs[i].args,
                                                 Len(calls) + 1, "handle_tool_decision")]
        /\ fs' = out.files
        /\ spawned' = out.procs
        /\ requests' = Append(requests,
                              Request(_format_tool_message(tool_event), Len(calls) + 1))
        /\ events' = Append(events, tool_event)
        /\ pc' = "await_model"
        /\ UNCHANGED <<text_segments, response, reply, heard, replies, proposed, raised>>

\* Agent.handle_tool_decision up to its generate_content request
handle_tool_decision(pending, approved) ==
    LET out == DecisionOutcome(pending, approved, fs, spawned)
        tool_event == _build_tool_event(pending.tool_name, out.result)
    IN  /\ calls' = Append(calls, ApiCall("handle_tool_decision", <<>>, Some(pending),
                                          approved))
        /\ op' = "handle_tool_decision"
        /\ in_flight' = in_flight + 1
        /\ executed' = executed \o [i \in 1..Len(out.runs) |->
                                       Execution(out.runs[i].name, out.runs[i].args,
                                                 Len(calls) + 1, "handle_tool_decision")]
        /\ fs' = out.files
        /\ spawned' = out.procs
        /\ requests' = Append(requests,
                              Request(_format_tool_message(tool_event), Len(calls) + 1))
        /\ text_segments' = <<>>
        /\ events' = <<tool_event>>
        /\ pc' = "await_model"
        /\ UNCHANGED <<response, reply, heard, replies,
                       proposed, raised>>

\* Mutant of _handle_tool_decision: the buttons are left as they are while
\* the decision is being processed.
_handle_tool_decision_LeavesButtons(approved) ==
    IF pending_tool = None
    THEN UNCHANGED handlerVars
    ELSE /\ Len(requests) < MaxRequests
         /\ history' = << <<>>,
                          <<"User ", IF approved THEN "approved" ELSE "denied",
                            " command: ">>
                              \o (IF "command" \in DOMAIN pending_tool[1].args
                                  THEN pending_tool[1].args["command"] ELSE <<>>) >>
         /\ handle_tool_decision(pending_tool[1], approved)
         /\ UNCHANGED <<app, input_box, pending_tool, buttons_disabled>>
         /\ UNCHANGED harnessVars

\* CLIApp._handle_tool_decision
_handle_tool_decision(approved) ==
    IF pending_tool = None
    THEN UNCHANGED handlerVars
    ELSE /\ Len(requests) < MaxRequests
         /\ history' = << <<>>,
                          <<"User ", IF approved THEN "approved" ELSE "denied",
                            " command: ">>
                              \o (IF "command" \in DOMAIN pending_tool[1].args
                                  THEN pending_tool[1].args["command"] ELSE <<>>) >>
         /\ buttons_disabled' = TRUE
         /\ handle_tool_decision(pending_tool[1], approved)
         /\ UNCHANGED <<app, input_box, pending_tool>>
         /\ UNCHANGED harnessVars

----------------------------------------------------------------------------
(* The steps of the front end and of the call that runs off the UI thread. *)

\* the user edits Input#inputbox
EditInput(value) ==
    /\ app = "running"
    /\ value # input_box
    /\ input_box' = value
    /\ UNCHANGED <<app, pending_tool, buttons_disabled, history>>
    /\ UNCHANGED agentVars
    /\ UNCHANGED harnessVars
    /\ UNCHANGED queue

\* the user edits Input#inputbox while no handler runs
TypeInput(value) == pc = "idle" /\ EditInput(value)

\* CLIApp.on_button_pressed; a disabled Button posts no Pressed message
on_button_pressed(id) ==
    /\ app = "running"
    /\ pc = "idle"
    /\ id \in {"approve", "deny"} => ~buttons_disabled
    /\ IF id = "sendbtn" THEN _process_input
       ELSE IF id = "approve" THEN _handle_tool_decision(TRUE)
       ELSE _handle_tool_decision(FALSE)
    /\ UNCHANGED queue

\* CLIApp.on_input_submitted
on_input_submitted ==
    /\ app = "running"
    /\ pc = "idle"
    /\ _process_input
    /\ UNCHANGED queue

\* Agent._respond_with_tool_execution up to its generate_content request
_respond_with_tool_execution(call) ==
    LET args == _normalize_args(call.args)
        out == _execute_tool_function(call.name, args, fs, spawned)
        event == _build_tool_event(call.name, out.result)
    IN  /\ executed' = Append(executed, Execution(call.name, args, Len(calls),
                                                  "_respond_with_tool_execution"))
        /\ fs' = out.files
        /\ spawned' = out.procs
        /\ events' = Append(events, event)
        /\ requests' = Append(requests, Request(_format_tool_message(event), Len(calls)))

\* generate_content returns resp: one iteration of the loop of
\* _process_response, to its return or to the next generate_content request
GenerateContentReturns(resp) ==
    /\ pc = "await_model"
    /\ response' = Some(resp)
    /\ heard' = Append(heard, [call |-> Len(calls), response |-> resp])
    /\ text_segments' = SegmentsAfter(text_segments, resp)
    /\ IF FunctionCalls(resp) = <<>>
       THEN /\ ReturnReply(AgentReply(_clean_text(text_segments'), None, events))
            /\ UNCHANGED <<events, requests, executed, spawned, fs, proposed>>
       ELSE LET call == CallOfIteration(FunctionCalls(resp))
            IN  IF NeedsApproval(call)
                THEN /\ ReturnReply(
                            AgentReply(_clean_text(text_segments'),
                                       Some(PendingToolCall(call.name,
                                                            _normalize_args(call.args))),
                                       events))
                     /\ proposed' = Some(call)
                     /\ UNCHANGED <<events, requests, executed, spawned, fs>>
                ELSE /\ Len(requests) < MaxRequests
                     /\ _respond_with_tool_execution(call)
                     /\ UNCHANGED <<pc, op, reply, replies, proposed, pending_tool,
                                    buttons_disabled, history, in_flight>>
    /\ UNCHANGED <<app, input_box, raised, calls>>
    /\ UNCHANGED harnessVars
    /\ UNCHANGED queue

\* generate_content raises: nothing in Agent or CLIApp catches it, so it leaves
\* the handler at its await and Textual ends the app on the unhandled error
GenerateContentRaises ==
    /\ pc = "await_model"
    /\ raised' = TRUE
    /\ in_flight' = in_flight - 1
    /\ pc' = "idle"
    /\ op' = "none"
    /\ app' = "crashed"
    /\ UNCHANGED <<input_box, pending_tool, buttons_disabled, history>>
    /\ UNCHANGED <<text_segments, events, response, reply, heard, replies,
                   proposed, requests,
                   executed, spawned, fs, calls>>
    /\ UNCHANGED harnessVars
    /\ UNCHANGED queue

Init ==
    /\ app = "running"
    /\ input_box = <<>>
    /\ pending_tool = None
    /\ buttons_disabled = TRUE
    /\ history = <<>>
    /\ pc = "idle"
    /\ op = "none"
    /\ text_segments = <<>>
    /\ events = <<>>
    /\ response = None
    /\ reply = None
    /\ proposed = None
    /\ requests = <<>>
    /\ raised = FALSE
    /\ executed = <<>>
    /\ spawned = <<>>
    /\ fs = <<>>
    /\ calls = <<>>
    /\ vp_path = <<>>
    /\ vp_result = None
    /\ tool_log = <<>>
    /\ in_flight = 0
    /\ queue = <<>>
    /\ CliNotStarted
    /\ heard = <<>>
    /\ replies = <<>>

Next ==
    \/ \E value \in InputValues : TypeInput(value)
    \/ \E id \in {"sendbtn", "approve", "deny"} : on_button_pressed(id)
    \/ on_input_submitted
    \/ \E resp \in ModelResponses : GenerateContentReturns(resp)
    \/ GenerateContentRaises

Spec == Init /\ [][Next]_vars

\* The program when every generate_content request and every tool execution
\* returns: the awaited request is answered in the end (weak fairness of
\* ModelAnswers), and in the end by a response that has no tool call or whose
\* first tool call is run_shell (weak fairness of ModelSettles).
Settles(resp) ==
    \/ FunctionCalls(resp) = <<>>
    \/ FunctionCalls(resp)[1].name = "run_shell"

LiveInputs == {<<>>, <<" ", "hi", " ">>}

LiveResponses ==
    {Response(Some(<<"t">>), <<>>),
     Response(None, <<c_touch>>),
     Response(Some(<<"t">>), <<c_write, c_touch>>),
     Response(None, <<c_unknown>>)}

ModelAnswers == \E resp \in LiveResponses : GenerateContentReturns(resp)

ModelSettles ==
    \E resp \in {r \in LiveResponses : Settles(r)} : GenerateContentReturns(resp)

NextLive ==
    \/ \E value \in LiveInputs : TypeInput(value)
    \/ \E id \in {"sendbtn", "approve", "deny"} : on_button_pressed(id)
    \/ on_input_submitted
    \/ ModelAnswers

SpecLive == Init /\ [][NextLive]_vars /\ WF_vars(ModelAnswers) /\ WF_vars(ModelSettles)

----------------------------------------------------------------------------
(* The path guard on its own: validate_path applied to every short path. *)

PathTokens == {".", "/", "p", "2"}

PathStrings == UNION {[1..n -> PathTokens] : n \in 0..MaxPathLen}

ValidatePathCall ==
    /\ vp_result = None
    /\ vp_result' = Some(validate_path(vp_path))
    /\ UNCHANGED vp_path
    /\ UNCHANGED <<tool_log, queue>>
    /\ UNCHANGED cliVars
    /\ UNCHANGED uiVars
    /\ UNCHANGED agentVars

InitGuard ==
    /\ app = "running"
    /\ input_box = <<>>
    /\ pending_tool = None
    /\ buttons_disabled = TRUE
    /\ history = <<>>
    /\ pc = "idle"
    /\ op = "none"
    /\ text_segments = <<>>
    /\ events = <<>>
    /\ response = None
    /\ reply = None
    /\ proposed = None
    /\ requests = <<>>
    /\ raised = FALSE
    /\ executed = <<>>
    /\ spawned = <<>>
    /\ fs = <<>>
    /\ calls = <<>>
    /\ vp_path \in PathStrings
    /\ vp_result = None
    /\ tool_log = <<>>
    /\ in_flight = 0
    /\ queue = <<>>
    /\ CliNotStarted
    /\ heard = <<>>
    /\ replies = <<>>

NextGuard == ValidatePathCall

SpecGuard == InitGuard /\ [][NextGuard]_vars

----------------------------------------------------------------------------
(* The tools on their own: _execute_tool_function called with every         *)
(* argument mapping of ToolInvocations, on a filesystem the earlier calls   *)
(* left behind.                                                             *)

MaxToolCalls == 2

\* ../p2/x, which os.path.abspath resolves to the sibling /w/p2/x
SiblingPath == <<".", ".", "/", "p", "2", "/", "x">>

Invocation(name, args) == [name |-> name, args |-> args]

ToolInvocations ==
    {Invocation("run_shell", [command |-> c]) :
         c \in {<<"touch p">>, <<"false">>, <<"nosuch">>, <<"sleep 60">>,
                <<"embedded NUL">>, NotAStr}}
    \cup {Invocation("run_shell", EmptyDict),
          Invocation("run_shell", [command |-> <<"ls">>, cwd |-> <<"/">>])}
    \cup {Invocation("write_file", [file_path |-> <<"p">>, contents |-> c]) :
              c \in {<<>>, <<"a", "\n", "b", "\n", "c">>, <<"a", "\r", "\n", "b">>,
                     <<"a", "\f", "b", "\n", "c">>, NotAStr}}
    \cup {Invocation("write_file", [file_path |-> q, contents |-> <<"a">>]) :
              q \in {SiblingPath, <<".">>, <<"/", "e">>, NotAStr}}
    \cup {Invocation("write_file", [file_path |-> <<"p">>])}
    \cup {Invocation("read_file", [file_path |-> q]) :
              q \in {<<"p">>, SiblingPath, <<".">>, <<"/", "e">>, NotAStr}}
    \cup {Invocation("read_file", [file_path |-> <<"p">>, num_lines |-> k]) :
              k \in {-1, 0, 1, 2, 5}}
    \cup {Invocation("read_file", [path |-> <<"p">>])}
    \cup {Invocation("delete_file", [file_path |-> <<"p">>])}

\* the sandbox before the first call: empty, or holding the file p
ToolFileSystems ==
    {<<>>, (WORK_DIR \o <<"/", "p">>) :> <<"o", "\n", "l", "\n", "d", "\n">>}

DirectToolCall(inv) ==
    /\ Len(tool_log) < MaxToolCalls
    /\ LET out == _execute_tool_function(inv.name, inv.args, fs, spawned)
       IN  /\ tool_log' = Append(tool_log, [name |-> inv.name, args |-> inv.args,
                                            before |-> fs, out |-> out])
           /\ fs' = out.files
           /\ spawned' = out.procs
    /\ UNCHANGED uiVars
    /\ UNCHANGED <<pc, op, text_segments, events, response, reply, heard, replies,
                   proposed,
                   requests, raised, executed, calls, in_flight>>
    /\ UNCHANGED guardVars
    /\ UNCHANGED queue
    /\ UNCHANGED cliVars

InitTools ==
    /\ app = "running"
    /\ input_box = <<>>
    /\ pending_tool = None
    /\ buttons_disabled = TRUE
    /\ history = <<>>
    /\ pc = "idle"
    /\ op = "none"
    /\ text_segments = <<>>
    /\ events = <<>>
    /\ response = None
    /\ reply = None
    /\ proposed = None
    /\ requests = <<>>
    /\ raised = FALSE
    /\ executed = <<>>
    /\ spawned = <<>>
    /\ fs \in ToolFileSystems
    /\ calls = <<>>
    /\ vp_path = <<>>
    /\ vp_result = None
    /\ tool_log = <<>>
    /\ in_flight = 0
    /\ queue = <<>>
    /\ CliNotStarted
    /\ heard = <<>>
    /\ replies = <<>>

NextTools == \E inv \in ToolInvocations : DirectToolCall(inv)

SpecTools == InitTools /\ [][NextTools]_vars

----------------------------------------------------------------------------
(* The message pump of CLIApp: Button.Pressed and Input.Submitted messages  *)
(* are posted at any time, also while an Agent call runs in its thread, and *)
(* the pump hands them to the handlers one at a time.                       *)

MaxQueue == 2

PumpInputs == {<<>>, <<" ", "hi", " ">>}

PumpResponses ==
    {Response(Some(<<"t">>), <<>>), Response(None, <<c_touch>>), Response(None, <<c_read>>)}

\* Mutant of PumpReady: the pump dispatches the next message while a handler
\* still awaits its call.
PumpReady_Concurrent == TRUE

\* The pump awaits the handler it dispatched before it takes the next
\* message: on_button_pressed and on_input_submitted are coroutines that
\* await _process_input / _handle_tool_decision to their end.
PumpReady == pc = "idle"

\* a click on a Button posts Button.Pressed; a disabled Button posts nothing
PostPressed(id) ==
    /\ app = "running"
    /\ Len(queue) < MaxQueue
    /\ id \in {"approve", "deny"} => ~buttons_disabled
    /\ queue' = Append(queue, id)
    /\ UNCHANGED handlerVars

\* Enter in Input#inputbox posts Input.Submitted
PostSubmitted ==
    /\ app = "running"
    /\ Len(queue) < MaxQueue
    /\ queue' = Append(queue, "submitted")
    /\ UNCHANGED handlerVars

\* the pump dispatches the oldest message to its handler
DispatchMessage ==
    /\ app = "running"
    /\ queue # <<>>
    /\ PumpReady
    /\ queue' = Tail(queue)
    /\ CASE Head(queue) = "submitted" -> _process_input
         [] Head(queue) = "sendbtn" -> _process_input
         [] Head(queue) = "approve" -> _handle_tool_decision(TRUE)
         [] OTHER -> _handle_tool_decision(FALSE)

NextPump ==
    \/ \E value \in PumpInputs : EditInput(value)
    \/ \E id \in {"sendbtn", "approve", "deny"} : PostPressed(id)
    \/ PostSubmitted
    \/ DispatchMessage
    \/ \E resp \in PumpResponses : GenerateContentReturns(resp)
    \/ GenerateContentRaises

SpecPump == Init /\ [][NextPump]_vars

----------------------------------------------------------------------------
(* The standalone command-line loops: run_agent of cli_agent.py and of      *)
(* cli_agent_textualize.py.  Both carry their own copies of the three       *)
(* tools, which return the output text alone; the loop blocks at            *)
(* input("User: "), at input("Allow? (y/n): ") and at each model request.   *)

MaxCliMessages == 3

CliScripts == {"cli_agent", "cli_agent_textualize"}

CliInputs == {<<"hi">>, <<"EXIT">>}

ApprovalAnswers == {<<"y">>, <<"Y">>, <<"n">>, <<"yes">>, <<>>}

DenialMessage == <<"User denied permission to execute this command.">>

\* func(**args) for the scripts' tools: read_file takes file_path only
CliBinds(tool_name, args) ==
    CASE tool_name = "run_shell" -> DOMAIN args = {"command"}
      [] tool_name = "write_file" -> DOMAIN args = {"file_path", "contents"}
      [] tool_name = "read_file" -> DOMAIN args = {"file_path"}
      [] OTHER -> FALSE

\* func = tool_functions[tool_name]; func_result = func(**args)
CliToolCall(tool_name, raw_args, files, procs) ==
    IF tool_name \notin TOOL_FUNCTIONS
    THEN Raise("KeyError", <<"'", tool_name, "'">>, files, procs)
    ELSE IF raw_args = None THEN Raise("TypeError", TypeErrorText, files, procs)
    ELSE IF ~CliBinds(tool_name, raw_args[1])
    THEN Raise("TypeError", TypeErrorText, files, procs)
    ELSE CASE tool_name = "run_shell" -> run_shell(raw_args[1]["command"], files, procs)
           [] tool_name = "write_file" ->
                  write_file(raw_args[1]["file_path"], raw_args[1]["contents"],
                             files, procs)
           [] OTHER -> read_file(raw_args[1]["file_path"], None, files, procs)

\* the try/except around the call: output_str is out.result.output
CliExecute(tool_name, raw_args, files, procs) ==
    CatchException(CliToolCall(tool_name, raw_args, files, procs), <<"Error: ">>)

\* What a script sends to the model for a tool result: cli_agent sends a
\* function-response part through the chat, cli_agent_textualize sends the
\* text as the contents of a fresh generate_content request.
CliToolMessage(script, tool_name, text) ==
    IF script = "cli_agent"
    THEN [kind |-> "function_response", name |-> tool_name, contents |-> text]
    ELSE [kind |-> "contents", name |-> "", contents |-> text]

\* What a script sends to the model when the user denies: cli_agent sends
\* the denial as the function response, cli_agent_textualize sends contents=""
CliDenialMessage(script, tool_name) ==
    IF script = "cli_agent"
    THEN [kind |-> "function_response", name |-> tool_name, contents |-> DenialMessage]
    ELSE [kind |-> "contents", name |-> "", contents |-> <<>>]

\* `except Exception` of the outer try: cli_agent goes back to the prompt,
\* cli_agent_textualize leaves the loop
CliOuterExcept ==
    /\ cli_pc' = (IF cli_script = "cli_agent" THEN "input" ELSE "done")
    /\ cli_todo' = <<>>
    /\ cli_call' = None
    /\ UNCHANGED <<cli_sent, fs, spawned>>

\* the tool runs and its output is sent to the model
CliRunTool(call, rest, out) ==
    /\ Len(cli_sent) < MaxCliMessages
    /\ fs' = out.files
    /\ spawned' = out.procs
    /\ cli_sent' = Append(cli_sent, CliToolMessage(cli_script, call.name, out.result.output))
    /\ cli_pc' = "await_model"
    /\ cli_todo' = rest
    /\ cli_call' = None

\* The loops from one blocking point to the next: the `for` visits the next
\* call of the list it iterates, or, that list exhausted, the `while` looks
\* at the latest response.
CliProceed(todo) ==
    IF todo = <<>>
    THEN /\ cli_pc' = "input"
         /\ cli_todo' = <<>>
         /\ cli_call' = None
         /\ UNCHANGED <<cli_sent, fs, spawned>>
    ELSE IF Head(todo).name = "run_shell"
    THEN IF Head(todo).args = None \/ "command" \notin DOMAIN _normalize_args(Head(todo).args)
         THEN CliOuterExcept
         ELSE /\ cli_pc' = "ask_approval"
              /\ cli_call' = Some(Head(todo))
              /\ cli_todo' = Tail(todo)
              /\ UNCHANGED <<cli_sent, fs, spawned>>
    ELSE CliRunTool(Head(todo), Tail(todo),
                    CliExecute(Head(todo).name, Head(todo).args, fs, spawned))

CliFrame ==
    /\ UNCHANGED uiVars
    /\ UNCHANGED <<pc, op, text_segments, events, response, reply, heard, replies,
                   proposed,
                   requests, raised, executed, calls, in_flight>>
    /\ UNCHANGED <<guardVars, tool_log, queue, cli_script>>

\* user_msg = input("\nUser: ") and the first request of the turn
CliUserInput(user_msg) ==
    /\ cli_pc = "input"
    /\ IF lower(user_msg) \in {<<"exit">>, <<"quit">>}
       THEN /\ cli_pc' = "done"
            /\ UNCHANGED cli_sent
       ELSE /\ Len(cli_sent) < MaxCliMessages
            /\ cli_sent' = Append(cli_sent, [kind |-> "user", name |-> "",
                                             contents |-> user_msg])
            /\ cli_pc' = "await_model"
    /\ UNCHANGED <<cli_response, cli_todo, cli_call, cli_answer, fs, spawned>>
    /\ CliFrame

\* the model request returns resp
CliModelResponds(resp) ==
    /\ cli_pc = "await_model"
    /\ cli_response' = Some(resp)
    /\ CliProceed(IF cli_todo # <<>> THEN cli_todo ELSE resp.function_calls)
    /\ UNCHANGED cli_answer
    /\ CliFrame

\* the model request raises
CliModelRaises ==
    /\ cli_pc = "await_model"
    /\ CliOuterExcept
    /\ UNCHANGED <<cli_response, cli_answer>>
    /\ CliFrame

\* approval = input("Allow? (y/n): ")
CliApproval(approval) ==
    /\ cli_pc = "ask_approval"
    /\ cli_answer' = Some(approval)
    /\ IF lower(approval) # <<"y">>
       THEN /\ Len(cli_sent) < MaxCliMessages
            /\ cli_sent' = Append(cli_sent, CliDenialMessage(cli_script, cli_call[1].name))
            /\ cli_pc' = "await_model"
            /\ cli_call' = None
            /\ UNCHANGED <<cli_todo, fs, spawned>>
       ELSE CliRunTool(cli_call[1], cli_todo,
                       CliExecute(cli_call[1].name, cli_call[1].args, fs, spawned))
    /\ UNCHANGED cli_response
    /\ CliFrame

InitCli ==
    /\ app = "running"
    /\ input_box = <<>>
    /\ pending_tool = None
    /\ buttons_disabled = TRUE
    /\ history = <<>>
    /\ pc = "idle"
    /\ op = "none"
    /\ text_segments = <<>>
    /\ events = <<>>
    /\ response = None
    /\ reply = None
    /\ proposed = None
    /\ requests = <<>>
    /\ raised = FALSE
    /\ executed = <<>>
    /\ spawned = <<>>
    /\ fs = <<>>
    /\ calls = <<>>
    /\ vp_path = <<>>
    /\ vp_result = None
    /\ tool_log = <<>>
    /\ in_flight = 0
    /\ queue = <<>>
    /\ cli_script \in CliScripts
    /\ cli_pc = "input"
    /\ cli_response = None
    /\ cli_todo = <<>>
    /\ cli_call = None
    /\ cli_answer = None
    /\ cli_sent = <<>>
    /\ heard = <<>>
    /\ replies = <<>>

NextCli ==
    \/ \E user_msg \in CliInputs : CliUserInput(user_msg)
    \/ \E resp \in ModelResponses : CliModelResponds(resp)
    \/ CliModelRaises
    \/ \E approval \in ApprovalAnswers : CliApproval(approval)

SpecCli == InitCli /\ [][NextCli]_vars

----------------------------------------------------------------------------
(* The claims. *)

Last(seq) == seq[Len(seq)]

\* the arguments of a call object as the model proposed them
ProposedArgs(call) == IF call.args = None THEN EmptyDict ELSE call.args[1]

\* the first tool call of a response is run_shell
ShellFirst(resp) ==
    resp.function_calls # <<>> /\ resp.function_calls[1].name = "run_shell"

\* this step is the return of a generate_content request
ResponseStep == pc = "await_model" /\ ~raised' /\ response' # None

\* this step is the front end handing a decision to Agent.handle_tool_decision
DecisionStep(approved) ==
    /\ pc = "idle"
    /\ Len(calls') = Len(calls) + 1
    /\ Last(calls').op = "handle_tool_decision"
    /\ Last(calls').approved = approved

ApprovedCalls ==
    {k \in DOMAIN calls : calls[k].op = "handle_tool_decision" /\ calls[k].approved}

\* C1: run_shell is executed only inside handle_tool_decision called with
\* approved = true: every run_shell execution belongs to an approved decision
\* call, never to handle_user_input or to the tool-cycling loop, and no more
\* processes are spawned than decisions were approved.
C1_ShellOnlyAfterApproval ==
    /\ \A i \in DOMAIN executed :
           executed[i].name = "run_shell" =>
               /\ executed[i].at = "handle_tool_decision"
               /\ executed[i].call \in ApprovedCalls
    /\ Len(spawned) <= Cardinality(ApprovedCalls)

C1_Witness ==
    /\ spawned # <<>>
    /\ \E i \in DOMAIN executed : executed[i].name = "run_shell"
    /\ \E k \in DOMAIN calls : calls[k].op = "handle_user_input"

\* C2: when the first tool call of a response is run_shell, the call returns
\* a reply whose pending_tool is run_shell with exactly the proposed arguments,
\* no tool is executed for that response and no further model request is issued.
C2_ShellFirstSuspends ==
    [][(ResponseStep /\ ShellFirst(response'[1])) =>
           /\ pc' = "idle"
           /\ reply' # None
           /\ reply'[1].pending_tool =
                  Some([tool_name |-> "run_shell",
                        args |-> ProposedArgs(response'[1].function_calls[1])])
           /\ executed' = executed
           /\ spawned' = spawned
           /\ fs' = fs
           /\ requests' = requests]_vars

\* a run_shell proposal that arrived after a resumption by handle_tool_decision
C2_Witness ==
    /\ pc = "idle"
    /\ response # None
    /\ ShellFirst(response[1])
    /\ ProposedArgs(response[1].function_calls[1]) # EmptyDict
    /\ reply # None
    /\ reply[1].pending_tool # None
    /\ calls # <<>>
    /\ Last(calls).op = "handle_tool_decision"

\* C3: a denied decision executes no tool (no process, filesystem untouched),
\* records one ToolEvent for the denied call, and the model request it issues
\* carries the denial message in place of the tool output.
C3_DenyExecutesNothing ==
    [][DecisionStep(FALSE) =>
           /\ executed' = executed
           /\ spawned' = spawned
           /\ fs' = fs
           /\ Len(events') = 1
           /\ events'[1].name = Last(calls').pending[1].tool_name
           /\ events'[1].output = <<"User denied permission to execute this command.">>
           /\ Len(requests') = Len(requests) + 1
           /\ Last(requests').contents =
                  <<"Tool ", events'[1].name, " (", events'[1].status, "):\n",
                    "User denied permission to execute this command.">>]_vars

\* a denial of `touch p`, which would have created a file
C3_Witness ==
    /\ pc = "await_model"
    /\ calls # <<>>
    /\ Last(calls).op = "handle_tool_decision"
    /\ ~Last(calls).approved
    /\ Last(calls).pending[1].args = [command |-> <<"touch p">>]
    /\ Len(events) = 1
    /\ fs = <<>>
    /\ spawned = <<>>

\* C4: an approved decision executes the pending tool exactly once, with the
\* arguments the model proposed in the call that created the PendingToolCall.
C4_ApproveExecutesOnce ==
    [][DecisionStep(TRUE) =>
           /\ proposed # None
           /\ Len(executed') = Len(executed) + 1
           /\ SubSeq(executed', 1, Len(executed)) = executed
           /\ Last(executed').name = proposed[1].name
           /\ Last(executed').args = ProposedArgs(proposed[1])
           /\ Len(spawned') <= Len(spawned) + 1
           /\ spawned' # spawned =>
                  spawned' = Append(spawned, ProposedArgs(proposed[1])["command"])]_vars

\* an approved `touch p` has run once and created the file
C4_Witness ==
    /\ calls # <<>>
    /\ Last(calls).op = "handle_tool_decision"
    /\ Last(calls).approved
    /\ spawned = << <<"touch p">> >>
    /\ (WORK_DIR \o <<"/", "p">>) \in DOMAIN fs
    /\ Len(executed) = 1

\* the path is the sandbox root or lies under it
InsideRoot(path) == path = WORK_DIR \/ startswith(path, WORK_DIR \o <<"/">>)

IsRelative(path) == path = <<>> \/ Head(path) # "/"

\* C5: for every relative path, validate_path returns the sandbox root or a
\* descendant of it, or fails; it never returns a path outside the root.
C5_GuardNeverEscapes ==
    (vp_result # None /\ IsRelative(vp_path)) =>
        (~vp_result[1].ok \/ InsideRoot(vp_result[1].path))

\* C6: while the front end holds a pending call, no handle_user_input call is
\* issued: a submit never runs with a PendingToolCall still undecided.
C6_DecisionBeforeSubmit ==
    (pc = "await_model" /\ op = "handle_user_input") => pending_tool = None

\* C7: every model request after the first reaches the model together with
\* the contents of all the earlier requests of the conversation.
C7_ContextPreserved ==
    \A i \in DOMAIN requests :
        \A j \in 1..(i - 1) : requests[j].contents \in ModelSees(requests[i])

\* C8: a response without tool calls ends the loop in that iteration: the
\* reply has no pending call, its text is the accumulated narration (the
\* segments joined by newlines, edge whitespace removed, None when nothing
\* is left), its events are those accumulated, and no request is issued.
C8_NoCallsTerminates ==
    [][(ResponseStep /\ response'[1].function_calls = <<>>) =>
           LET narration == strip(join(<<"\n">>, text_segments'))
           IN  /\ pc' = "idle"
               /\ reply' # None
               /\ reply'[1].pending_tool = None
               /\ reply'[1].text = IF narration = <<>> THEN None ELSE Some(narration)
               /\ (response'[1].text # None /\ response'[1].text[1] # <<>>) =>
                      (text_segments' # <<>>
                       /\ Last(text_segments') = response'[1].text[1])
               /\ reply'[1].tool_events = events
               /\ requests' = requests
               /\ executed' = executed]_vars

\* a final answer after a tool iteration that had narration of its own
C8_Witness ==
    /\ pc = "idle"
    /\ response # None
    /\ response[1].function_calls = <<>>
    /\ reply # None
    /\ reply[1].pending_tool = None
    /\ reply[1].text # None
    /\ Len(text_segments) >= 2
    /\ Len(reply[1].tool_events) >= 1

\* C9: of a response with several tool calls only the first is processed: at
\* most one tool is executed or one approval requested, for the first call,
\* and the other calls are neither executed nor made pending.
C9_FirstCallOnly ==
    [][(ResponseStep /\ Len(response'[1].function_calls) >= 2) =>
           LET first == response'[1].function_calls[1]
           IN  /\ Len(executed') <= Len(executed) + 1
               /\ Len(events') <= Len(events) + 1
               /\ Len(requests') <= Len(requests) + 1
               /\ executed' # executed =>
                      /\ Last(executed').name = first.name
                      /\ Last(executed').args = ProposedArgs(first)
                      /\ reply' = reply
                      /\ pending_tool' = pending_tool
               /\ executed' = executed =>
                      /\ reply' # None
                      /\ reply'[1].pending_tool =
                             Some([tool_name |-> first.name,
                                   args |-> ProposedArgs(first)])
                      /\ requests' = requests]_vars

\* write_file came first and ran; the run_shell behind it was left alone
C9_Witness ==
    /\ pc = "await_model"
    /\ response # None
    /\ Len(response[1].function_calls) = 2
    /\ response[1].function_calls[1].name = "write_file"
    /\ response[1].function_calls[2].name = "run_shell"
    /\ Len(executed) = 1
    /\ executed[1].name = "write_file"
    /\ spawned = <<>>
    /\ pending_tool = None

\* C10: after a failed model request the front end is still running and its
\* approve/deny state is consistent (a held pending call can be decided).
C10_FailureLeavesUsable ==
    raised => (app = "running" /\ (pending_tool # None => ~buttons_disabled))

endswith(text, suffix) ==
    /\ Len(suffix) <= Len(text)
    /\ SubSeq(text, Len(text) - Len(suffix) + 1, Len(text)) = suffix

\* C11: every _execute_tool_function call, whatever its argument mapping,
\* returns (no exception is left in flight) a result whose status is success
\* or error and whose output is text; when the tool is unknown or an
\* exception was raised on the way, the status is error and the output names
\* the cause.
C11_NoExceptionEscapes ==
    \A i \in 1..Len(tool_log) :
        LET call == tool_log[i]
            result == call.out.result
        IN  /\ call.out.exc = None
            /\ result.status \in {"success", "error"}
            /\ result.output \in Seq(STRING) /\ result.output # NotAStr
            /\ call.name \notin TOOL_FUNCTIONS =>
                   result = ToolResult("error", <<"Error: Unknown tool '", call.name, "'.">>)
            /\ call.out.cause # None =>
                   /\ result.status = "error"
                   /\ IF call.out.cause[1].type = "TimeoutExpired"
                      THEN result.output = <<"Error: Command timed out.">>
                      ELSE endswith(result.output, call.out.cause[1].text)

\* a wrongly typed argument made write() raise, and a later call was given
\* a mapping without its required argument
C11_Witness ==
    /\ Len(tool_log) = 2
    /\ tool_log[1].name = "write_file"
    /\ "contents" \in DOMAIN tool_log[1].args
    /\ tool_log[1].args["contents"] = NotAStr
    /\ tool_log[1].out.cause # None
    /\ tool_log[2].args = EmptyDict
    /\ tool_log[2].out.result.status = "error"

\* the first tool call of a response names a tool that is not in the catalog
UnknownFirst(resp) ==
    resp.function_calls # <<>> /\ resp.function_calls[1].name \notin TOOL_FUNCTIONS

UnknownToolOutput(name) == <<"Error: Unknown tool '", name, "'.">>

\* C12: when the first tool call of a response names a tool that is not in
\* the catalog, nothing is raised: an error-status ToolEvent is recorded for
\* it, the same error is sent to the model as the next request, nothing is
\* returned to the front end yet (the loop waits for the model's next
\* response), and no file or process is touched.
C12_UnknownToolReported ==
    [][(ResponseStep /\ UnknownFirst(response'[1])) =>
           LET name == response'[1].function_calls[1].name
           IN  /\ app' = app
               /\ events' = Append(events, ToolEvent(name, "error", UnknownToolOutput(name)))
               /\ Len(requests') = Len(requests) + 1
               /\ Last(requests').contents =
                      <<"Tool ", name, " (", "error", "):\n">> \o UnknownToolOutput(name)
               /\ pc' = "await_model"
               /\ op' = op
               /\ reply' = reply
               /\ fs' = fs
               /\ spawned' = spawned]_vars

\* the loop went on after an unknown tool: the call has returned a reply that
\* carries the unknown tool's event
C12_Witness ==
    /\ pc = "idle"
    /\ reply # None
    /\ \E i \in DOMAIN reply[1].tool_events :
           /\ reply[1].tool_events[i].name \notin TOOL_FUNCTIONS
           /\ reply[1].tool_events[i].status = "error"

\* the direct run_shell calls that were given a command
ShellCalls ==
    {i \in 1..Len(tool_log) :
         tool_log[i].name = "run_shell" /\ DOMAIN tool_log[i].args = {"command"}
             /\ tool_log[i].args["command"] # NotAStr}

\* what the shell does with the command of direct call i
ShellRun(i) == ShellOutcome(tool_log[i].args["command"], tool_log[i].before)

\* C13: a command that the shell launches and that ends with a non-zero exit
\* code within the timeout yields status success with the failure visible in
\* output (the output is something the command wrote, not the report of a
\* successful execution); a launch failure or a timeout yields status error.
C13_NonZeroExitVisible ==
    \A i \in ShellCalls :
        LET run == ShellRun(i)
            result == tool_log[i].out.result
        IN  /\ (run.launched /\ run.duration <= ShellTimeout /\ run.code # 0) =>
                   /\ result.status = "success"
                   /\ result.output # <<"Command executed successfully (no output).">>
            /\ (~run.launched \/ run.duration > ShellTimeout) => result.status = "error"

\* C14: run_shell always returns: no call leaves an exception in flight or
\* takes longer than the timeout, and a launched command that would run
\* beyond the timeout is cut off at the timeout, with the result
\* {status: error, output: 'Error: Command timed out.'}.
C14_TimeoutReturns ==
    \A i \in ShellCalls :
        LET run == ShellRun(i)
            out == tool_log[i].out
        IN  /\ out.exc = None
            /\ out.elapsed <= ShellTimeout
            /\ (run.launched /\ run.duration > ShellTimeout) =>
                   /\ out.elapsed = ShellTimeout
                   /\ out.result = ToolResult("error", <<"Error: Command timed out.">>)
                   /\ out.files = tool_log[i].before

\* a command that takes 60 seconds was run and the call has returned
C14_Witness ==
    \E i \in ShellCalls :
        /\ ShellRun(i).duration > ShellTimeout
        /\ tool_log[i].out.result.status = "error"
        /\ Len(spawned) >= 1

\* direct call i is read_file(path) without a line limit, right after a
\* successful write_file to the same path
ReadsBackWrite(i) ==
    /\ i \in 2..Len(tool_log)
    /\ tool_log[i].name = "read_file"
    /\ DOMAIN tool_log[i].args = {"file_path"}
    /\ tool_log[i - 1].name = "write_file"
    /\ DOMAIN tool_log[i - 1].args = {"file_path", "contents"}
    /\ tool_log[i - 1].args["file_path"] = tool_log[i].args["file_path"]
    /\ tool_log[i - 1].out.result.status = "success"

\* C15: read_file(p) right after a successful write_file(p, c) returns status
\* success with output exactly c, whatever the file held before the write.
C15_WriteReadRoundTrip ==
    \A i \in 1..Len(tool_log) :
        ReadsBackWrite(i) =>
            tool_log[i].out.result =
                ToolResult("success", tool_log[i - 1].args["contents"])

\* the lines of a text file: the pieces that "\n" ends or separates
RECURSIVE FileLines(_)
FileLines(text) ==
    IF text = <<>> THEN <<>>
    ELSE IF \A i \in 1..Len(text) : text[i] # "\n" THEN <<text>>
    ELSE LET k == CHOOSE i \in 1..Len(text) :
                      text[i] = "\n" /\ \A j \in 1..(i - 1) : text[j] # "\n"
         IN  <<SubSeq(text, 1, k - 1)>> \o FileLines(SubSeq(text, k + 1, Len(text)))

Min(a, b) == IF a < b THEN a ELSE b

\* the direct read_file calls with a line limit on a file that exists
LimitedReads ==
    {i \in 1..Len(tool_log) :
         /\ tool_log[i].name = "read_file"
         /\ DOMAIN tool_log[i].args = {"file_path", "num_lines"}
         /\ tool_log[i].args["file_path"] = <<"p">>
         /\ (WORK_DIR \o <<"/", "p">>) \in DOMAIN tool_log[i].before}

\* the text of the file that direct call i reads, as open(...).read() gives it
TextRead(i) == read_text(tool_log[i].before[WORK_DIR \o <<"/", "p">>])

\* C16: read_file(path, num_lines = k) with k >= 1 on a file of N lines
\* returns status success with the first min(k, N) lines of the file, in
\* their order, joined by newlines.
C16_FirstLines ==
    \A i \in LimitedReads :
        LET k == tool_log[i].args["num_lines"]
            lines == FileLines(TextRead(i))
        IN  k >= 1 =>
                tool_log[i].out.result =
                    ToolResult("success",
                               join(<<"\n">>, SubSeq(lines, 1, Min(k, Len(lines)))))

\* C17: read_file with num_lines <= 0 returns status error.
C17_NonPositiveLimitRejected ==
    \A i \in LimitedReads :
        tool_log[i].args["num_lines"] <= 0 => tool_log[i].out.result.status = "error"

\* C18: whatever Send, Enter, Approve and Deny messages arrive while a call
\* runs, at most one Agent call is in flight at any time, and a model request
\* is outstanding exactly while that one call is in flight (tools run and
\* requests are issued only inside the call).
C18_StrictlySequential ==
    /\ in_flight \in {0, 1}
    /\ in_flight = 1 <=> pc = "await_model"

\* a second call is in flight while messages that arrived during a call wait
C18_Witness ==
    /\ Len(calls) >= 2
    /\ in_flight = 1
    /\ Len(queue) = MaxQueue

\* C19: the step in which the user's decision is handed to
\* Agent.handle_tool_decision passes the pending call of the most recent
\* AgentReply and leaves the front end without a pending call.
C19_PendingConsumedAtDecision ==
    [][\A approved \in BOOLEAN :
           DecisionStep(approved) =>
               /\ reply # None
               /\ Last(calls').pending = reply[1].pending_tool
               /\ pending_tool' = None]_vars

\* the tool messages the latest call has sent to the model, in order
ToolMessagesOfCall ==
    LET mine == SelectSeq(requests, LAMBDA r : r.call = Len(calls))
    IN  IF Last(calls).op = "handle_user_input" THEN Tail(mine) ELSE mine

\* the tools the latest call has executed or seen denied, in order
ToolsOfCall ==
    LET ran == SelectSeq(executed, LAMBDA e : e.call = Len(calls))
        names == [i \in 1..Len(ran) |-> ran[i].name]
        denied == Last(calls).op = "handle_tool_decision" /\ ~Last(calls).approved
    IN  (IF denied THEN <<Last(calls).pending[1].tool_name>> ELSE <<>>) \o names

\* The events of the latest call stand one for one, in order, for the tools
\* it executed or saw denied (the decided tool first) and for the messages
\* it sent to the model, where sent(e) is the output sent for event e; the
\* reply the call returned carries exactly these events.
EventsAccountFor(sent(_)) ==
    calls # <<>> =>
        /\ [i \in 1..Len(events) |-> events[i].name] = ToolsOfCall
        /\ [i \in 1..Len(ToolMessagesOfCall) |-> ToolMessagesOfCall[i].contents]
               = [i \in 1..Len(events) |->
                     <<"Tool ", events[i].name, " (", events[i].status, "):\n">>
                         \o sent(events[i])]
        /\ \A i \in 1..Len(events) : events[i].status \in {"success", "error"}
        /\ (pc = "idle" /\ ~raised) => (reply # None /\ reply[1].tool_events = events)

\* C20 as stated: tool_events holds one ToolEvent per tool executed or denied
\* during the call, in execution order, and the status and output sent to
\* the model for a tool are those recorded in its ToolEvent.
C20_EventsSentUnaltered == EventsAccountFor(LAMBDA e : e.output)

\* C20 as amended: the same, except that an empty output is sent to the
\* model as the placeholder "(no output)".
C20_EventsSentWithPlaceholder ==
    EventsAccountFor(LAMBDA e : IF e.output = <<>> THEN <<"(no output)">> ELSE e.output)

\* a call has returned two events, one of them with an empty output
C20_Witness ==
    /\ pc = "idle"
    /\ ~raised
    /\ reply # None
    /\ Len(reply[1].tool_events) = 2
    /\ \E i \in 1..2 : reply[1].tool_events[i].output = <<>>

\* where the path argument of a file tool leads: os.path.abspath of the path
\* taken from the sandbox root
Resolved(file_path) == abspath(path_join(WORK_DIR, file_path))

\* the direct write_file and read_file calls whose path is text that leads
\* outside the sandbox root
EscapingFileCalls ==
    {i \in 1..Len(tool_log) :
         /\ tool_log[i].name \in {"write_file", "read_file"}
         /\ Binds(tool_log[i].name, tool_log[i].args)
         /\ tool_log[i].args["file_path"] # NotAStr
         /\ ~InsideRoot(Resolved(tool_log[i].args["file_path"]))}

\* C21: a write_file or read_file call whose path leads outside the sandbox
\* root leaves the filesystem as it was and returns an error-status result.
C21_EscapeFailsClosed ==
    \A i \in EscapingFileCalls :
        /\ tool_log[i].out.files = tool_log[i].before
        /\ tool_log[i].out.result.status = "error"
        /\ tool_log[i].out.exc = None

\* the first tool call of a response is write_file or read_file
FileToolFirst(resp) ==
    resp.function_calls # <<>> /\ resp.function_calls[1].name \in {"write_file", "read_file"}

\* C22: when the first tool call of a response is write_file or read_file,
\* the step executes that tool once, with the proposed arguments and inside
\* the running call, creates no PendingToolCall and returns nothing yet,
\* appends one ToolEvent for it and issues one model request that carries the
\* event's status and output; the call then waits for the new response.
C22_FileToolRunsAtOnce ==
    [][(ResponseStep /\ FileToolFirst(response'[1])) =>
           LET call == response'[1].function_calls[1]
               event == Last(events')
           IN  /\ executed' = Append(executed,
                                     [name |-> call.name, args |-> ProposedArgs(call),
                                      call |-> Len(calls),
                                      at |-> "_respond_with_tool_execution"])
               /\ pending_tool' = pending_tool
               /\ proposed' = proposed
               /\ reply' = reply
               /\ Len(events') = Len(events) + 1
               /\ SubSeq(events', 1, Len(events)) = events
               /\ event.name = call.name
               /\ event.status \in {"success", "error"}
               /\ Len(requests') = Len(requests) + 1
               /\ SubSeq(requests', 1, Len(requests)) = requests
               /\ startswith(Last(requests').contents,
                             <<"Tool ", call.name, " (", event.status, "):\n">>)
               /\ endswith(Last(requests').contents, event.output)
               /\ pc' = "await_model"
               /\ in_flight' = in_flight]_vars

\* a call that ran write_file at once has gone on to return its reply, and
\* the file is there
C22_Witness ==
    /\ pc = "idle"
    /\ reply # None
    /\ reply[1].pending_tool = None
    /\ \E i \in DOMAIN reply[1].tool_events :
           reply[1].tool_events[i] =
               ToolEvent("write_file", "success", <<"Successfully wrote to ", "p">>)
    /\ (WORK_DIR \o <<"/", "p">>) \in DOMAIN fs

\* C23: in both standalone loops, an answer other than 'y' to the approval
\* prompt runs nothing (no process, no file change) and sends the model the
\* denial message as the result of that tool call.
C23_CliDenialReachesModel ==
    [][(cli_pc = "ask_approval" /\ cli_pc' = "await_model" /\ cli_answer'[1] # <<"y">>) =>
           /\ spawned' = spawned
           /\ fs' = fs
           /\ Len(cli_sent') = Len(cli_sent) + 1
           /\ Last(cli_sent').contents = DenialMessage]_vars

\* the pending call a response asks for, as _process_response builds it
PendingOf(resp) ==
    IF resp.function_calls = <<>> THEN None
    ELSE Some(PendingToolCall(resp.function_calls[1].name,
                              ProposedArgs(resp.function_calls[1])))

\* C24: nothing is carried from one Agent call into the next.  A call starts
\* with no narration and with no event but the one of the tool just decided,
\* and its first request holds the message of this call alone; the reply it
\* returns is made of the narration and the events gathered during the call
\* and of the last response.
C24_AgentRetainsNothing ==
    [][/\ (Len(calls') = Len(calls) + 1) =>
              /\ text_segments' = <<>>
              /\ Len(requests') = Len(requests) + 1
              /\ Last(calls').op = "handle_user_input" =>
                     /\ events' = <<>>
                     /\ Last(requests').contents = Last(calls').user_msg
              /\ Last(calls').op = "handle_tool_decision" =>
                     /\ Len(events') = 1
                     /\ events'[1].name = Last(calls').pending[1].tool_name
                     /\ Last(requests').contents =
                            <<"Tool ", events'[1].name, " (", events'[1].status, "):\n">>
                                \o (IF events'[1].output = <<>> THEN <<"(no output)">>
                                    ELSE events'[1].output)
       /\ (ResponseStep /\ pc' = "idle") =>
              reply' = Some(AgentReply(
                                _clean_text(SegmentsAfter(text_segments, response'[1])),
                                PendingOf(response'[1]),
                                events))]_vars

\* a call that ran a tool has returned, and the next call has returned a
\* reply without events
C24_Witness ==
    /\ Len(calls) >= 2
    /\ Last(calls).op = "handle_user_input"
    /\ pc = "idle"
    /\ ~raised
    /\ executed # <<>>
    /\ reply # None
    /\ reply[1].tool_events = <<>>

\* the narration the Agent heard during call k: the non-empty texts of the
\* responses generate_content returned to it, in order
NarrationOf(k) ==
    LET mine == SelectSeq(heard, LAMBDA h : /\ h.call = k
                                            /\ h.response.text # None
                                            /\ h.response.text[1] # <<>>)
    IN  [i \in 1..Len(mine) |-> mine[i].response.text[1]]

\* the tools call k executed or saw denied, in order
ToolsOf(k) ==
    LET ran == SelectSeq(executed, LAMBDA e : e.call = k)
        names == [i \in 1..Len(ran) |-> ran[i].name]
        denied == calls[k].op = "handle_tool_decision" /\ ~calls[k].approved
    IN  (IF denied THEN <<calls[k].pending[1].tool_name>> ELSE <<>>) \o names

\* call k has come back to the front end with a reply
Returned(k) == ~raised /\ (k < Len(calls) \/ pc = "idle")

\* C25: within a turn (a handle_user_input and the handle_tool_decision calls
\* that resume it) every reply carries the narration and the events of its own
\* call and of no other: its text is the cleaned narration heard during that
\* call, its events stand one for one for the tools that call executed or saw
\* denied, no call has two replies, and every call that has come back has one.
\* So what the reply with the pending call delivered is not repeated by the
\* reply of the following handle_tool_decision, and nothing is dropped.
C25_DeliveredExactlyOnce ==
    /\ \A i \in 1..Len(replies) :
           LET k == replies[i].call
               r == replies[i].reply
           IN  /\ r.text = _clean_text(NarrationOf(k))
               /\ [j \in 1..Len(r.tool_events) |-> r.tool_events[j].name] = ToolsOf(k)
    /\ \A i, j \in 1..Len(replies) : i < j => replies[i].call < replies[j].call
    /\ \A h \in 1..Len(heard) :
           Returned(heard[h].call) => \E i \in 1..Len(replies) : replies[i].call = heard[h].call

\* a call has returned narration, an event and a pending call, and the
\* handle_tool_decision that resumed it has returned its own narration and
\* the event of the decided tool alone
C25_Witness ==
    /\ Len(replies) = 2
    /\ replies[1].reply.pending_tool # None
    /\ replies[1].reply.text # None
    /\ Len(replies[1].reply.tool_events) = 1
    /\ calls[replies[2].call].op = "handle_tool_decision"
    /\ replies[2].reply.text # None
    /\ Len(replies[2].reply.tool_events) = 1

\* C26: the Approve and Deny buttons are enabled only while the app holds a
\* pending call; a decision leaves them disabled, and they become enabled
\* again only by the arrival of a reply that carries a pending call, which the
\* app then holds.
C26_ButtonsFollowPending ==
    /\ [](~buttons_disabled => pending_tool # None)
    /\ [][/\ (\E approved \in BOOLEAN : DecisionStep(approved)) => buttons_disabled'
          /\ (buttons_disabled /\ ~buttons_disabled') =>
                 /\ pc = "await_model"
                 /\ pc' = "idle"
                 /\ Len(replies') = Len(replies) + 1
                 /\ Last(replies').reply.pending_tool # None
                 /\ pending_tool' = Last(replies').reply.pending_tool]_vars

\* a decision has been processed and its reply, carrying a new pending call,
\* has enabled the buttons again
C26_Witness ==
    /\ calls # <<>>
    /\ Last(calls).op = "handle_tool_decision"
    /\ pc = "idle"
    /\ ~buttons_disabled
    /\ pending_tool # None

\* the tools the latest call has run in the loop of _process_response
LoopIterations ==
    Len(SelectSeq(executed, LAMBDA e : /\ e.call = Len(calls)
                                       /\ e.at = "_respond_with_tool_execution"))

\* C27: when every request and every tool execution returns and the model
\* settles in the end, every handle_user_input and handle_tool_decision call
\* returns an AgentReply; and the loop never ends a call on its own account:
\* a response whose first tool call is not run_shell is always followed by
\* that tool's execution and one more request, whatever the number of
\* iterations so far.
C27_CallReturns ==
    /\ (pc = "await_model") ~>
           (/\ pc = "idle"
            /\ ~raised
            /\ replies # <<>>
            /\ Last(replies).call = Len(calls))
    /\ [][(pc = "await_model" /\ Len(heard') = Len(heard) + 1
              /\ ~Settles(Last(heard').response)) =>
                 /\ pc' = "await_model"
                 /\ Len(executed') = Len(executed) + 1
                 /\ Len(requests') = Len(requests) + 1
                 /\ replies' = replies]_vars

\* a call has returned its reply after as many tool iterations as the
\* requests of the model allow
C27_Witness ==
    /\ pc = "idle"
    /\ ~raised
    /\ replies # <<>>
    /\ Last(replies).call = Len(calls)
    /\ LoopIterations = MaxRequests - 1

\* the error read_file returns when the Path Guard rejects file_path
GuardRejection(file_path) ==
    ToolResult("error",
               <<"Error reading file: ">> \o <<"SECURITY ALERT: Access denied to ">>
                   \o file_path \o <<". Stay in ">> \o WORK_DIR)

ReadCalls ==
    {i \in 1..Len(tool_log) :
         /\ tool_log[i].name = "read_file"
         /\ Binds("read_file", tool_log[i].args)
         /\ tool_log[i].args["file_path"] # NotAStr}

\* C28: read_file of a path that resolves outside the sandbox root returns
\* the guard-rejection error, whatever the filesystem holds at that location,
\* and the not-found error is returned only for paths inside the root.
C28_GuardBeforeExistence ==
    \A i \in ReadCalls :
        LET file_path == tool_log[i].args["file_path"]
        IN  /\ ~InsideRoot(Resolved(file_path)) =>
                   tool_log[i].out.result = GuardRejection(file_path)
            /\ tool_log[i].out.result.output = <<"Error: File not found.">> =>
                   InsideRoot(Resolved(file_path))

====
